---------------------------- MODULE Spec2Model ----------------------------
(***************************************************************************)
(* A model of the contract-analysis application (Hraj7a/AIX).              *)
(*                                                                         *)
(* Part 1 - the Inference Client: query_huggingface of src/app.py          *)
(*          (lines 339-365, defined again with the same control flow at    *)
(*          lines 427-453), run against a simulated endpoint.              *)
(* Part 2 - the Text Chunker (section 4.1 of the specification).           *)
(* Part 3 - the Aggregator (section 4.4 of the specification).             *)
(* Part 4 - the chat completion, get_chatgpt_response (app.py:303-335).    *)
(* Part 5 - start-up and the multi-file loop of app.py (455-477, 564-591). *)
(* Part 6 - main of app.py (371-422): the chat transcript across runs.     *)
(* Part 7 - the Home page of streamlit_demo.py (565-651).                  *)
(***************************************************************************)
EXTENDS Integers, Sequences, FiniteSets, TLC

VARIABLES
    pc,         \* position of the one query_huggingface call
    endpoint,   \* the simulated endpoint: its answer to the 1st, 2nd, ... POST
    args,       \* the arguments query_huggingface was called with
    request,    \* the request query_huggingface has built
    posts,      \* every POST issued so far, in order
    sleeps,     \* every blocking sleep so far, in order (seconds)
    ret,        \* what the call returned
    ctext,      \* Chunker: the input string, a sequence of characters
    cmax,       \* Chunker: the maximum chunk size
    cpos,       \* Chunker: index of the first character not yet emitted
    chunks,     \* Chunker: the chunks emitted so far
    spans,      \* Chunker: the <<first, last>> slice each chunk was cut from
    cpc,        \* Chunker: "run" or "done"
    achunks,    \* Aggregator: the chunk sequence it was given (chunk ids)
    aoutcome,   \* Aggregator: the Inference Client's result for each chunk
    ai,         \* Aggregator: index of the next chunk
    acalls,     \* Aggregator: chunk ids an inference request was issued for
    aparts,     \* Aggregator: the outputs collected so far
    aresult,    \* Aggregator: the value it returned
    apc,        \* Aggregator: "run" or "done"
    gpc,        \* get_chatgpt_response: position of the one call
    gcompletion,\* what client.chat.completions.create does when called
    grequest,   \* the arguments of client.chat.completions.create
    gret,       \* what get_chatgpt_response returned
    gprinted,   \* lines printed to the console
    tkey,       \* AZURE_TRANSLATOR_KEY: "None" (not configured) or a key
    spc,        \* the script run: "startup", "loop", "done" or "crashed"
    files,      \* the uploaded files, in upload order
    fi,         \* index of the next file of the loop
    shown,      \* what the run displayed, in order
    flog,       \* what the loop did with each file it finished with
    mset,       \* main: whether "messages" is in st.session_state
    messages,   \* main: st.session_state.messages, the chat transcript
    uploaded,   \* main: the value of the file uploader, "None" or a document
    run,        \* main: what the last run of the script was given and did
    initials,   \* main: initial analyses requested so far in the session
    qa_pairs,   \* Home page: st.session_state.qa_pairs
    home_uploaded_files, \* Home page: the value of the file uploader
    all_texts,  \* Home page: all_texts as the last run left it
    combined_text, \* Home page: combined_text of the last run
    hshown,     \* Home page: what the file loop of the last run displayed
    hrun        \* Home page: what the last run was given

clientVars == <<pc, endpoint, args, request, posts, sleeps, ret>>
chunkVars == <<ctext, cmax, cpos, chunks, spans, cpc>>
aggVars == <<achunks, aoutcome, ai, acalls, aparts, aresult, apc>>
chatVars == <<gpc, gcompletion, grequest, gret, gprinted>>
fileVars == <<tkey, spc, files, fi, shown, flog>>
mainVars == <<mset, messages, uploaded, run, initials>>
homeVars == <<qa_pairs, home_uploaded_files, all_texts, combined_text, hshown, hrun>>
vars == <<clientVars, chunkVars, aggVars, chatVars, fileVars, mainVars, homeVars>>

\* everything but one part's variables
notClient == <<chunkVars, aggVars, chatVars, fileVars, mainVars, homeVars>>
notChunker == <<clientVars, aggVars, chatVars, fileVars, mainVars, homeVars>>
notAggregator == <<clientVars, chunkVars, chatVars, fileVars, mainVars, homeVars>>
notChat == <<clientVars, chunkVars, aggVars, fileVars, mainVars, homeVars>>
notFiles == <<clientVars, chunkVars, aggVars, chatVars, mainVars, homeVars>>
notMain == <<clientVars, chunkVars, aggVars, chatVars, fileVars, homeVars>>
notHome == <<clientVars, chunkVars, aggVars, chatVars, fileVars, mainVars>>

-----------------------------------------------------------------------------
(* Bounds of the model *)

\* number of answers the simulated endpoint has scripted (the last repeats)
ScriptLen == 2

-----------------------------------------------------------------------------
(* Part 1: the Inference Client *)

\* token argument: None (no credential configured) or a token
Tokens == {"None", "hf_token"}
ModelIds == {"m1"}
Texts == {"", "contract"}
Countries == {"", "Qatar"}

\* The endpoint's statuses the specification distinguishes, and one other.
Statuses == {200, 401, 403, 404, 429, 500, 503}

\* JSON bodies: tag is the top-level shape, items the members (an object's
\* key and value, or a bare string under key "-"), est an estimated_time.
Item(k, v) == [key |-> k, val |-> v]
Json(t, its, e) == [tag |-> t, items |-> its, est |-> e]
Bodies200 ==
    { Json("list", <<Item("generated_text", "X")>>, 0),
      Json("list", <<Item("generated_text", "X"), Item("summary_text", "S")>>, 0),
      Json("object", <<Item("generated_text", "Y")>>, 0),
      Json("string", <<Item("-", "W")>>, 0),
      Json("list", <<Item("-", "Z")>>, 0),
      Json("object", <<Item("unexpected", "1")>>, 0) }
ErrorBody == Json("object", <<Item("error", "e")>>, 0)
LoadingBody == Json("object", <<Item("error", "loading")>>, 5)

\* What one POST can meet: an HTTP response, or a network-level error
\* (requests.post raises).
Response(s, b) == [net |-> "ok", status |-> s, body |-> b]
NetworkFailure == [net |-> "error", status |-> 0, body |-> ErrorBody]
Answers ==
    { Response(200, b) : b \in Bodies200 }
    \cup { Response(s, ErrorBody) : s \in Statuses \ {200, 503} }
    \cup { Response(503, LoadingBody), NetworkFailure }

\* The endpoint's answer to the n-th POST (the last scripted answer repeats).
AnswerTo(n) == endpoint[IF n < Len(endpoint) THEN n ELSE Len(endpoint)]

\* app.py:341  headers = {"Authorization": f"Bearer {token}"}
Headers(token) == <<"Bearer", token>>

\* app.py:342  API_URL = f"https://api-inference.huggingface.co/models/{model_id}"
ApiUrl(model_id) == <<"https://api-inference.huggingface.co", "models", model_id>>

\* (mutant) the laws-of clause is rendered whatever the country
PromptAlwaysNaming(text, country) ==
    <<"Based on the following text", "laws of", country,
      "1", "2", "3", "4", "5", "Text from legal document:", text>>

\* app.py:344-361  the prompt template, with the chunk interpolated last
Prompt(text, country) ==
    IF country # ""
    THEN <<"Based on the following text", "laws of", country,
           "1", "2", "3", "4", "5", "Text from legal document:", text>>
    ELSE <<"Based on the following text",
           "1", "2", "3", "4", "5", "Text from legal document:", text>>

\* (mutant) the body carries a sampling temperature too
PayloadWithTemperature(text, country) ==
    [inputs |-> Prompt(text, country),
     parameters |-> [max_new_tokens |-> 1024, temperature |-> 7]]

\* app.py:363  payload = {"inputs": prompt, "parameters": {"max_new_tokens": 1024}}
MaxNewTokens == 1024
Payload(text, country) ==
    [inputs |-> Prompt(text, country),
     parameters |-> [max_new_tokens |-> MaxNewTokens]]

\* app.py:339  the parameters of query_huggingface
Args(model_id, token, text, country) ==
    [model_id |-> model_id, token |-> token, text |-> text, country |-> country]
NoArgs == Args("", "", "", "")

\* app.py:364  requests.post(API_URL, headers=headers, json=payload, ...)
Request(model_id, token, text, country) ==
    [method |-> "POST", url |-> ApiUrl(model_id), headers |-> Headers(token),
     json |-> Payload(text, country)]

NoRequest ==
    [method |-> "", url |-> <<>>, headers |-> <<>>,
     json |-> [inputs |-> <<>>, parameters |-> [max_new_tokens |-> 0]]]
NoReturn == [kind |-> "none", response |-> NetworkFailure]

\* The return value of query_huggingface: the requests.Response itself.
Returned(r) == [kind |-> "Response", response |-> r]

ClientInit ==
    /\ pc = "idle"
    /\ endpoint \in [1..ScriptLen -> Answers]
    /\ args = NoArgs
    /\ request = NoRequest
    /\ posts = <<>>
    /\ sleeps = <<>>
    /\ ret = NoReturn

\* query_huggingface, lines 341-363: build headers, URL, prompt and payload.
QueryHuggingfaceBuild ==
    /\ pc = "idle"
    /\ \E model_id \in ModelIds, token \in Tokens, text \in Texts, country \in Countries :
          /\ args' = Args(model_id, token, text, country)
          /\ request' = Request(model_id, token, text, country)
    /\ pc' = "post"
    /\ UNCHANGED <<endpoint, posts, sleeps, ret, notClient>>

\* The number of requests one call can issue: line 364 is the only
\* requests.post of query_huggingface and it stands in no loop.
AttemptCeiling == 1

\* (mutant) a 429 or 503 answer is retried instead of returned
QueryHuggingfacePostRetrying ==
    /\ pc = "post"
    /\ Len(posts) < 3
    /\ posts' = Append(posts, request)
    /\ LET r == AnswerTo(Len(posts) + 1) IN
          IF r.net = "error"
          THEN /\ pc' = "raised"
               /\ ret' = ret
          ELSE IF r.status \in {429, 503}
          THEN /\ pc' = "post"
               /\ ret' = ret
          ELSE /\ pc' = "returned"
               /\ ret' = Returned(r)
    /\ UNCHANGED <<endpoint, args, request, sleeps, notClient>>

\* query_huggingface, lines 364-365: one requests.post, whose response is
\* returned as it is; a network-level error raises out of the function.
QueryHuggingfacePost ==
    /\ pc = "post"
    /\ posts' = Append(posts, request)
    /\ LET r == AnswerTo(Len(posts) + 1) IN
          IF r.net = "error"
          THEN /\ pc' = "raised"
               /\ ret' = ret
          ELSE /\ pc' = "returned"
               /\ ret' = Returned(r)
    /\ UNCHANGED <<endpoint, args, request, sleeps, notClient>>

-----------------------------------------------------------------------------
(* Part 2: the Text Chunker (specification, section 4.1) *)

\* longest input string, largest maximum chunk size, and the length of the
\* tail of the candidate window searched for a separator (the "last ~200
\* characters", scaled to the model's string lengths)
MaxLen == 5
MaxChunk == 4
Lookback == 3

Alphabet == {" ", "\n", ".", ";", "?", "!"}
Whitespace == {" ", "\n"}

\* the preferred separators, in priority order
Separators ==
    << <<"\n", "\n">>, <<"\n">>, <<".", " ">>, <<";", " ">>, <<"?", " ">>, <<"!", " ">> >>

Strings(n) == UNION { [1..k -> Alphabet] : k \in 0..n }

Min(a, b) == IF a < b THEN a ELSE b
Max(a, b) == IF a > b THEN a ELSE b

\* number of leading (trailing) whitespace characters of s
RECURSIVE LeadWs(_)
LeadWs(s) ==
    IF s = <<>> \/ Head(s) \notin Whitespace THEN 0 ELSE 1 + LeadWs(Tail(s))
RECURSIVE TrailWs(_)
TrailWs(s) ==
    IF s = <<>> \/ s[Len(s)] \notin Whitespace THEN 0
    ELSE 1 + TrailWs(SubSeq(s, 1, Len(s) - 1))

\* str.strip(): s without its leading and trailing whitespace
Strip(s) ==
    IF LeadWs(s) = Len(s) THEN <<>>
    ELSE SubSeq(s, LeadWs(s) + 1, Len(s) - TrailWs(s))

\* the last position k in lo..hi at which sep occurs wholly inside lo..hi
\* (0 when there is none): a backward search
RFind(text, sep, lo, hi) ==
    LET hits == { k \in lo..(hi - Len(sep) + 1) :
                    SubSeq(text, k, k + Len(sep) - 1) = sep }
    IN IF hits = {} THEN 0 ELSE CHOOSE k \in hits : \A j \in hits : j <= k

\* the separators, by priority, found in the tail lo..hi of the window
FoundSeparators(text, lo, hi) ==
    { i \in 1..Len(Separators) : RFind(text, Separators[i], lo, hi) # 0 }

\* (mutant) the separator nearest the boundary is taken, whatever its priority
ChunkEndNearest(text, start, max) ==
    LET hard == Min(start + max - 1, Len(text))
        lo == Max(start, hard - Lookback + 1)
        found == FoundSeparators(text, lo, hard)
        EndOf(i) == RFind(text, Separators[i], lo, hard) + Len(Separators[i]) - 1
    IN IF hard = Len(text) \/ found = {} THEN hard
       ELSE LET best == CHOOSE i \in found : \A j \in found : EndOf(j) <= EndOf(i)
            IN EndOf(best)

\* (mutant) the hard boundary is taken one character too far
ChunkEndOffByOne(text, start, max) == Min(start + max, Len(text))

\* The last character of the chunk that starts at start: the hard boundary,
\* moved back to the end of the preferred separator when the boundary falls
\* before the end of the text and the window's tail holds a separator.
ChunkEnd(text, start, max) ==
    LET hard == Min(start + max - 1, Len(text))
        lo == Max(start, hard - Lookback + 1)
        found == FoundSeparators(text, lo, hard)
    IN IF hard = Len(text) \/ found = {} THEN hard
       ELSE LET best == CHOOSE i \in found : \A j \in found : i <= j
            IN RFind(text, Separators[best], lo, hard) + Len(Separators[best]) - 1

\* (mutant) the next chunk starts one character late: a character is dropped
NextStartSkipping(end) == end + 2

\* The first character of the next chunk.
NextStart(end) == end + 1

\* (mutant) the slice is emitted untrimmed
EmitUntrimmed(slice) == slice

\* What the caller receives for the slice: the slice, trimmed.
Emit(slice) == Strip(slice)

\* (mutant) the empty input yields nothing
EmptyInputYieldsNothing(text) == FALSE

\* Whether the input yields the single empty chunk (the edge case).
EmptyInputYieldsChunk(text) == text = <<>>

ChunkerInit ==
    /\ ctext \in Strings(MaxLen)
    /\ cmax \in 1..MaxChunk
    /\ cpos = 1
    /\ chunks = <<>>
    /\ spans = <<>>
    /\ cpc = "run"

\* One step of the lazy sequence: the next chunk, or the end of the sequence.
ChunkerYield ==
    /\ cpc = "run"
    /\ IF cpos > Len(ctext)
       THEN /\ cpc' = "done"
            /\ IF chunks = <<>> /\ EmptyInputYieldsChunk(ctext)
               THEN /\ chunks' = <<Emit(<<>>)>>
                    /\ spans' = << <<1, 0>> >>
               ELSE UNCHANGED <<chunks, spans>>
            /\ cpos' = cpos
       ELSE LET end == ChunkEnd(ctext, cpos, cmax) IN
            /\ chunks' = Append(chunks, Emit(SubSeq(ctext, cpos, end)))
            /\ spans' = Append(spans, <<cpos, end>>)
            /\ cpos' = NextStart(end)
            /\ cpc' = cpc
    /\ UNCHANGED <<ctext, cmax, notChunker>>

-----------------------------------------------------------------------------
(* Part 3: the Aggregator (specification, section 4.4) *)

\* longest chunk sequence given to the Aggregator
MaxChunks == 3

\* The kinds of an InferenceResult (specification, sections 3 and 7).
HardKinds == {"MissingCredential", "AuthenticationFailed", "ModelNotFound"}
SoftKinds == {"UpstreamError", "UnrecognizedSchema", "NetworkError", "RetriesExhausted"}
Outcomes == {"Success"} \cup HardKinds \cup SoftKinds

\* The generated text of chunk i, and its entry in the result: the text under
\* the chunk-index marker.
OutputOf(i) == <<"output", i>>
Labeled(i) == [marker |-> i, text |-> OutputOf(i)]

Failure(kind) == [ok |-> FALSE, kind |-> kind, parts |-> <<>>]
Success(parts) == [ok |-> TRUE, kind |-> "Success", parts |-> parts]
NoResult == [ok |-> FALSE, kind |-> "none", parts |-> <<>>]

\* (mutant) an unknown model is treated as a soft failure
AbortsOnCredentialOnly(kind) == kind \in {"MissingCredential", "AuthenticationFailed"}

\* Whether a chunk's result ends the aggregation.
Aborts(kind) == kind \in HardKinds

\* (mutant) the newest output is put in front of the earlier ones
AddPartInFront(parts, i) == <<Labeled(i)>> \o parts

\* A successful chunk's output joins the outputs collected so far.
AddPart(parts, i) == Append(parts, Labeled(i))

AggregatorInit ==
    /\ \E n \in 1..MaxChunks :
          /\ achunks = [i \in 1..n |-> i]
          /\ aoutcome \in [1..n -> Outcomes]
    /\ ai = 1
    /\ acalls = <<>>
    /\ aparts = <<>>
    /\ aresult = NoResult
    /\ apc = "run"

\* One pass of the loop: the Inference Client is invoked for the next chunk;
\* a hard failure is returned at once, a soft failure is skipped, a success
\* is appended under its marker.
AggregatorStep ==
    /\ apc = "run"
    /\ ai <= Len(achunks)
    /\ acalls' = Append(acalls, achunks[ai])
    /\ ai' = ai + 1
    /\ IF Aborts(aoutcome[ai])
       THEN /\ aresult' = Failure(aoutcome[ai])
            /\ apc' = "done"
            /\ aparts' = aparts
       ELSE /\ aparts' = IF aoutcome[ai] = "Success"
                         THEN AddPart(aparts, achunks[ai])
                         ELSE aparts
            /\ UNCHANGED <<aresult, apc>>
    /\ UNCHANGED <<achunks, aoutcome, notAggregator>>

\* After the last chunk: the collected outputs are returned, in order.
AggregatorReturn ==
    /\ apc = "run"
    /\ ai > Len(achunks)
    /\ aresult' = Success(aparts)
    /\ apc' = "done"
    /\ UNCHANGED <<achunks, aoutcome, ai, acalls, aparts, notAggregator>>

-----------------------------------------------------------------------------
(* Part 4: the chat completion, get_chatgpt_response (app.py:303-335) *)

ChatTexts == {"", "contract", "Original contract text: contract Question: q"}
ChatModels == {"gpt-3.5-turbo", "gpt-4"}

\* What client.chat.completions.create can do: answer with a message whose
\* content is a string (a sequence of characters here) or None, or raise.
Reply(content) == [kind |-> "reply", content |-> content]
NoneReply == [kind |-> "none", content |-> <<>>]
CreateRaises == [kind |-> "raise", content |-> <<>>]
Completions ==
    { Reply(<<"r">>), Reply(<<" ", "r", "\n">>), Reply(<<>>), NoneReply, CreateRaises }

\* app.py:325-331  the arguments of client.chat.completions.create
ChatRequest(text, country, model) ==
    [model |-> model,
     messages |-> <<[role |-> "user", content |-> Prompt(text, country)]>>,
     max_tokens |-> 2048, n |-> 1, temperature |-> "0.7"]
NoChatRequest ==
    [model |-> "", messages |-> <<>>, max_tokens |-> 0, n |-> 0, temperature |-> ""]

\* app.py:335  the string returned when anything in the try block raised
ErrorText == <<"Error: Could not get response from ChatGPT">>

\* A return value of get_chatgpt_response: always a str.
Str(value) == [type |-> "str", value |-> value]
NoStr == [type |-> "none", value |-> <<>>]

\* app.py:332-335  response.choices[0].message.content.strip(), or, when
\* create raised or the content is None (None has no strip), the error string
ChatReturn(completion) ==
    IF completion.kind = "reply" THEN Str(Strip(completion.content))
    ELSE Str(ErrorText)

ChatInit ==
    /\ gpc = "idle"
    /\ gcompletion \in Completions
    /\ grequest = NoChatRequest
    /\ gret = NoStr
    /\ gprinted = <<>>

\* get_chatgpt_response, lines 305-331: the prompt and the request.
GetChatgptResponseBuild ==
    /\ gpc = "idle"
    /\ \E text \in ChatTexts, country \in Countries, model \in ChatModels :
          grequest' = ChatRequest(text, country, model)
    /\ gpc' = "create"
    /\ UNCHANGED <<gcompletion, gret, gprinted, notChat>>

\* get_chatgpt_response, lines 325-335: the call, and the return of the
\* stripped content or, from the except block, of the error string.
GetChatgptResponseCreate ==
    /\ gpc = "create"
    /\ gret' = ChatReturn(gcompletion)
    /\ gprinted' = IF gcompletion.kind = "reply" THEN gprinted
                   ELSE Append(gprinted, "Error getting ChatGPT response")
    /\ gpc' = "returned"
    /\ UNCHANGED <<gcompletion, grequest, notChat>>

-----------------------------------------------------------------------------
(* Part 5: start-up and the multi-file loop of app.py (lines 455-477 and
   564-591): extraction, language detection, translation of Arabic *)

\* most files in one upload
MaxFiles == 2

\* The bytes of a file that is read as plain text: characters that are valid
\* UTF-8, and an invalid byte.
InvalidByte == "xFF"
Bytes == {"a", " ", InvalidByte}
Datas == { <<>>, <<" ">>, <<"a", InvalidByte>>, <<InvalidByte, "a", " ">> }

\* app.py:552-557  the uploader takes pdf, docx and doc; a file is its
\* extension and, for what is read as plain text, its bytes
UploadedFile(ext, data) == [ext |-> ext, data |-> data]
Uploadable ==
    { UploadedFile("pdf", <<>>), UploadedFile("docx", <<>>) }
    \cup { UploadedFile("doc", d) : d \in Datas }

\* What PdfReader / Document give for a file: its text, or an exception.
LibraryTexts == { <<>>, <<"a">>, <<"\n", " ">> }
LibraryOutcomes == { [raised |-> FALSE, text |-> t] : t \in LibraryTexts }
                   \cup { [raised |-> TRUE, text |-> <<>>] }

\* bytes.decode("utf-8", errors="ignore"): invalid bytes are left out
RECURSIVE DecodeIgnore(_)
DecodeIgnore(data) ==
    IF data = <<>> THEN <<>>
    ELSE IF Head(data) = InvalidByte THEN DecodeIgnore(Tail(data))
    ELSE <<Head(data)>> \o DecodeIgnore(Tail(data))

\* (mutant) a strict decode: an invalid byte raises
DecodeStrict(data) ==
    IF \E i \in 1..Len(data) : data[i] = InvalidByte
    THEN [raised |-> TRUE, text |-> <<>>]
    ELSE [raised |-> FALSE, text |-> data]

\* app.py:477  return file.read().decode("utf-8", errors="ignore")
ReadAsPlainText(data) == [raised |-> FALSE, text |-> DecodeIgnore(data)]

\* app.py:468-477  extract_text_from_file: by the end of the file's name
ExtractTextFromFile(file, library) ==
    IF file.ext = "pdf" \/ file.ext = "docx" THEN library
    ELSE ReadAsPlainText(file.data)

\* What detect(text[:500]) gives: a language code, or an exception.
DetectOutcomes == {"en", "ar", "raise"}

\* (mutant) a failed detection is taken for Arabic
LangAfterDetectArabic(det) == IF det = "raise" THEN "ar" ELSE det

\* app.py:577-582  lang = detect(...), or "unknown" from the except block
LangAfterDetect(det) == IF det = "raise" THEN "unknown" ELSE det

\* What translator_client.translate does: it answers, or raises. A client
\* built without a key has no credential the service accepts.
TranslateOutcomes(key) == IF key = "None" THEN {"raise"} ELSE {"ok", "raise"}

\* app.py:460-466  translate_text: the translation, or the exception of the
\* call, which nothing in the function catches
TranslateText(text, outcome) ==
    IF outcome = "ok" THEN [raised |-> FALSE, text |-> <<"en:">> \o text]
    ELSE [raised |-> TRUE, text |-> <<>>]

Shown(kind, i) == [kind |-> kind, file |-> i]
Entry(i, text, det, lang, tr, text_en, skipped) ==
    [file |-> i, text |-> text, detect |-> det, lang |-> lang,
     translate |-> tr, text_en |-> text_en, skipped |-> skipped]

FilesInit ==
    /\ tkey \in {"None", "key"}
    /\ spc = "startup"
    /\ \E n \in 0..MaxFiles : files \in [1..n -> Uploadable]
    /\ fi = 1
    /\ shown = <<>>
    /\ flog = <<>>

\* app.py:455-458  translator_client is built at module level, whatever the
\* key: AzureKeyCredential(None) either raises there and then or gives a
\* client that holds no key.
Startup ==
    /\ spc = "startup"
    /\ \/ spc' = "loop"
       \/ tkey = "None" /\ spc' = "crashed"
    /\ UNCHANGED <<tkey, files, fi, shown, flog, notFiles>>

\* app.py:565-591  one pass of "for file in uploaded_files".
ProcessFile ==
    /\ spc = "loop"
    /\ fi <= Len(files)
    /\ \E library \in LibraryOutcomes, det \in DetectOutcomes,
          tr \in TranslateOutcomes(tkey) :
        LET ex == ExtractTextFromFile(files[fi], library)
            lang == LangAfterDetect(det)
            tt == TranslateText(ex.text, tr)
            s1 == Append(shown, Shown("write_processing", fi))
            s2 == Append(s1, Shown(IF det = "raise" THEN "warning_detect"
                                   ELSE "info_language", fi))
            s3 == Append(s2, Shown("write_translating", fi))
        IN
        IF ex.raised
        THEN \* line 570 stands in no try block: the exception ends the run
             /\ spc' = "crashed"
             /\ shown' = s1
             /\ UNCHANGED <<fi, flog>>
        ELSE IF Strip(ex.text) = <<>>
        THEN \* lines 572-574
             /\ shown' = Append(s1, Shown("error_empty", fi))
             /\ flog' = Append(flog, Entry(fi, ex.text, "-", "-", "-", <<>>, TRUE))
             /\ fi' = fi + 1
             /\ spc' = spc
        ELSE IF lang # "ar"
        THEN \* lines 576-585, no translation
             /\ shown' = s2
             /\ flog' = Append(flog, Entry(fi, ex.text, det, lang, "-", <<>>, FALSE))
             /\ fi' = fi + 1
             /\ spc' = spc
        ELSE IF tt.raised
        THEN \* lines 589-591
             /\ shown' = Append(s3, Shown("error_translation", fi))
             /\ flog' = Append(flog, Entry(fi, ex.text, det, lang, "raise", <<>>, TRUE))
             /\ fi' = fi + 1
             /\ spc' = spc
        ELSE \* line 588
             /\ shown' = s3
             /\ flog' = Append(flog, Entry(fi, ex.text, det, lang, "ok", tt.text, FALSE))
             /\ fi' = fi + 1
             /\ spc' = spc
    /\ UNCHANGED <<tkey, files, notFiles>>

\* The loop has gone through every file.
LoopEnd ==
    /\ spc = "loop"
    /\ fi > Len(files)
    /\ spc' = "done"
    /\ UNCHANGED <<tkey, files, fi, shown, flog, notFiles>>

-----------------------------------------------------------------------------
(* Part 6: main of app.py (lines 371-422), one action per run of the script
   within one browser session *)

\* most runs of the script in one session
MaxRuns == 4

Documents == {"A", "B"}
Questions == {"q1", "q2"}

\* What the user did to cause a run: the first load or a change of another
\* widget, an upload, the removal of the upload, a submitted question.
Upload(d) == [kind |-> "upload", doc |-> d, question |-> "None"]
Ask(q) == [kind |-> "ask", doc |-> "None", question |-> q]
Events ==
    { [kind |-> "rerun", doc |-> "None", question |-> "None"],
      [kind |-> "remove", doc |-> "None", question |-> "None"] }
    \cup { Upload(d) : d \in Documents } \cup { Ask(q) : q \in Questions }

\* app.py:382  the value of st.file_uploader in a run
UploadedFileOf(event, before) ==
    CASE event.kind = "upload" -> event.doc
      [] event.kind = "remove" -> "None"
      [] OTHER -> before

\* What get_chatgpt_response returns: a reply drawn from the text it was
\* given, or the error string (app.py:332-335).
ChatOutcomes == {"reply", "error"}
Content(says, of) == [says |-> says, of |-> of]
GetChatgptResponse(says, doc, outcome) ==
    IF outcome = "reply" THEN Content(says, doc) ELSE Content("error", "-")

Message(role, content) == [role |-> role, content |-> content]

\* (mutant) an initial analysis is requested in every run with a file
NeedsInitialAlways(msgs) == TRUE

\* app.py:403  if len(st.session_state.messages) == 0
NeedsInitial(msgs) == Len(msgs) = 0

\* app.py:403-405  the initial analysis opens an empty transcript
InitializeChat(msgs, doc, outcome) ==
    IF NeedsInitial(msgs)
    THEN Append(msgs, Message("assistant", GetChatgptResponse("analysis", doc, outcome)))
    ELSE msgs

\* (mutant) the question is recorded without its reply
AskFollowUpNoReply(msgs, q, doc, outcome) ==
    Append(msgs, Message("user", Content(q, "-")))

\* app.py:413-420  the question, then the reply to it, are appended
AskFollowUp(msgs, q, doc, outcome) ==
    msgs \o << Message("user", Content(q, "-")),
                Message("assistant", GetChatgptResponse("answer", doc, outcome)) >>

\* (mutant) the transcript is rendered after the question is handled
RenderedAtEnd(atLoop, atEnd) == atEnd

\* app.py:408-410  the for loop renders the transcript as it is at line 408
RenderedMessages(atLoop, atEnd) == atLoop

Run(n, event, file, start, initial, rendered, outcome) ==
    [n |-> n, event |-> event.kind, file |-> file, question |-> event.question,
     start |-> start, initial |-> initial, rendered |-> rendered,
     outcome |-> outcome]
NoRun ==
    [n |-> 0, event |-> "none", file |-> "None", question |-> "None",
     start |-> <<>>, initial |-> FALSE, rendered |-> <<>>, outcome |-> "none"]

MainInit ==
    /\ mset = FALSE
    /\ messages = <<>>
    /\ uploaded = "None"
    /\ run = NoRun
    /\ initials = 0

\* One run of main. A question can only come from the chat input the last
\* run displayed (line 413), so from a run that got that far.
Main ==
    /\ run.n < MaxRuns
    /\ \E event \in Events, extraction \in {"ok", "raise"},
          first \in ChatOutcomes, second \in ChatOutcomes :
        LET file == UploadedFileOf(event, uploaded)
            start == messages
            initial == NeedsInitial(start)
            atLoop == InitializeChat(start, file, first)
            atEnd == IF event.kind = "ask"
                     THEN AskFollowUp(atLoop, event.question, file, second)
                     ELSE atLoop
        IN
        /\ event.kind = "ask" => run.outcome = "complete"
        /\ event.kind = "remove" => uploaded # "None"
        /\ mset' = TRUE
        /\ uploaded' = file
        /\ IF file = "None"
           THEN \* lines 421-422
                /\ messages' = start
                /\ initials' = initials
                /\ run' = Run(run.n + 1, event, file, start, FALSE, <<>>, "no file")
           ELSE IF extraction = "raise"
           THEN \* line 392 stands in no try block
                /\ messages' = start
                /\ initials' = initials
                /\ run' = Run(run.n + 1, event, file, start, FALSE, <<>>, "crashed")
           ELSE \* lines 392-420
                /\ messages' = atEnd
                /\ initials' = IF initial THEN initials + 1 ELSE initials
                /\ run' = Run(run.n + 1, event, file, start, initial,
                              RenderedMessages(atLoop, atEnd), "complete")
    /\ UNCHANGED notMain

-----------------------------------------------------------------------------
(* Part 7: the Home page of streamlit_demo.py (lines 565-651), one action per
   run of the script: the file loop, then the Q&A buttons *)

\* most files in one upload, and most saved pairs
MaxHomeFiles == 2
MaxPairs == 2

\* An uploaded file: what its name and type make of it (line 579, line 584,
\* or neither), and what the library does with it.
HomeFile(kind, raises) == [kind |-> kind, raises |-> raises]
HomeFiles ==
    { HomeFile(k, r) : k \in {"pdf", "docx"}, r \in BOOLEAN }
    \cup { HomeFile("other", FALSE) }

\* What the two inputs of the Q&A section can hold (lines 630-631).
HomeQuestions == {"", "q"}
HomeAnswers == {"", "a"}

\* What the user did to cause a run.
HomeEvent(kind, ups, question, answer) ==
    [kind |-> kind, files |-> ups, question |-> question, answer |-> answer]
HomeEvents ==
    { HomeEvent("rerun", <<>>, q, a) : q \in HomeQuestions, a \in HomeAnswers }
    \cup { HomeEvent("upload", f, "", "") :
             f \in UNION { [1..n -> HomeFiles] : n \in 0..MaxHomeFiles } }
    \cup { HomeEvent("save", <<>>, q, a) : q \in HomeQuestions, a \in HomeAnswers }
    \cup { HomeEvent("clear", <<>>, q, a) : q \in HomeQuestions, a \in HomeAnswers }

\* streamlit_demo.py:595-599  the entry of a file (its name is its position)
TextEntry(i, file) ==
    [filename |-> i,
     text |-> IF file.kind = "other" THEN "" ELSE "text",
     pages |-> IF file.kind = "other" THEN 0 ELSE 1]

\* (mutant) a file whose extraction raised leaves an entry with no text
ProcessUploadedFileKeeping(texts, i, file) ==
    IF file.raises
    THEN Append(texts, [filename |-> i, text |-> "", pages |-> 0])
    ELSE Append(texts, TextEntry(i, file))

\* streamlit_demo.py:571-603  the body of the loop: the try block appends
\* the entry, the except block only displays the error
ProcessUploadedFile(texts, i, file) ==
    IF file.raises THEN texts ELSE Append(texts, TextEntry(i, file))

\* streamlit_demo.py:569-603  all_texts after the first n files
RECURSIVE AllTexts(_, _)
AllTexts(ups, n) ==
    IF n = 0 THEN <<>>
    ELSE ProcessUploadedFile(AllTexts(ups, n - 1), n, ups[n])

\* streamlit_demo.py:601-603  what the loop displays for the first n files
RECURSIVE LoopShown(_, _)
LoopShown(ups, n) ==
    IF n = 0 THEN <<>>
    ELSE Append(LoopShown(ups, n - 1),
                [kind |-> IF ups[n].raises THEN "error" ELSE "success",
                 file |-> n])

\* streamlit_demo.py:608  "\n\n".join of "=== filename ===\n text"
RECURSIVE CombinedText(_)
CombinedText(texts) ==
    IF texts = <<>> THEN <<>>
    ELSE <<"===", Head(texts).filename, "===", Head(texts).text>>
         \o CombinedText(Tail(texts))

\* (mutant) the pair is saved whatever the inputs hold
SaveQaUnchecked(pairs, question, answer) ==
    Append(pairs, [question |-> question, answer |-> answer])

\* streamlit_demo.py:635-638  Save Q&A
SaveQa(pairs, question, answer) ==
    IF question # "" /\ answer # ""
    THEN Append(pairs, [question |-> question, answer |-> answer])
    ELSE pairs

\* streamlit_demo.py:640-641  Clear History
ClearHistory(pairs) == <<>>

NoHomeRun == [n |-> 0, event |-> HomeEvent("none", <<>>, "", ""), before |-> <<>>]

HomeInit ==
    /\ qa_pairs = <<>>
    /\ home_uploaded_files = <<>>
    /\ all_texts = <<>>
    /\ combined_text = <<>>
    /\ hshown = <<>>
    /\ hrun = NoHomeRun

\* One run of the Home page. The buttons exist only in a run with files
\* uploaded (line 565), so a click comes after such a run.
HomeRun ==
    \E event \in HomeEvents :
        LET ups == IF event.kind = "upload" THEN event.files
                     ELSE home_uploaded_files
        IN
        /\ event.kind \in {"save", "clear"} =>
              hrun.n > 0 /\ home_uploaded_files # <<>>
        /\ event.kind = "save" => Len(qa_pairs) < MaxPairs
        /\ home_uploaded_files' = ups
        /\ all_texts' = AllTexts(ups, Len(ups))
        /\ combined_text' = CombinedText(AllTexts(ups, Len(ups)))
        /\ hshown' = LoopShown(ups, Len(ups))
        /\ qa_pairs' =
              CASE event.kind = "save" -> SaveQa(qa_pairs, event.question, event.answer)
                [] event.kind = "clear" -> ClearHistory(qa_pairs)
                [] OTHER -> qa_pairs
        /\ hrun' = [n |-> 1, event |-> event, before |-> qa_pairs]
        /\ UNCHANGED notHome

-----------------------------------------------------------------------------
(* The specifications: each part runs with the other parts at rest. *)

ClientIdle ==
    /\ pc = "off" /\ endpoint = <<>> /\ args = NoArgs /\ request = NoRequest
    /\ posts = <<>> /\ sleeps = <<>> /\ ret = NoReturn
ChunkerIdle ==
    /\ ctext = <<>> /\ cmax = 1 /\ cpos = 1
    /\ chunks = <<>> /\ spans = <<>> /\ cpc = "off"
AggregatorIdle ==
    /\ achunks = <<>> /\ aoutcome = <<>> /\ ai = 1 /\ acalls = <<>>
    /\ aparts = <<>> /\ aresult = NoResult /\ apc = "off"

ChatIdle ==
    /\ gpc = "off" /\ gcompletion = CreateRaises /\ grequest = NoChatRequest
    /\ gret = NoStr /\ gprinted = <<>>

FilesIdle ==
    /\ tkey = "None" /\ spc = "off" /\ files = <<>> /\ fi = 1
    /\ shown = <<>> /\ flog = <<>>
MainIdle ==
    /\ mset = FALSE /\ messages = <<>> /\ uploaded = "None"
    /\ run = NoRun /\ initials = 0
HomeIdle ==
    /\ qa_pairs = <<>> /\ home_uploaded_files = <<>> /\ all_texts = <<>>
    /\ combined_text = <<>> /\ hshown = <<>> /\ hrun = NoHomeRun

Init == ClientInit /\ ChunkerIdle /\ AggregatorIdle /\ ChatIdle /\ FilesIdle /\ MainIdle
    /\ HomeIdle
Next == QueryHuggingfaceBuild \/ QueryHuggingfacePost
Spec == Init /\ [][Next]_vars

\* The call runs on the one thread of the script run: a step that can be
\* taken is taken.
SpecFair == Init /\ [][Next]_vars /\ WF_vars(Next)

ChunkerSpecInit ==
    ChunkerInit /\ ClientIdle /\ AggregatorIdle /\ ChatIdle /\ FilesIdle /\ MainIdle
    /\ HomeIdle
ChunkerSpecNext == ChunkerYield
SpecChunker == ChunkerSpecInit /\ [][ChunkerSpecNext]_vars

AggregatorSpecInit ==
    AggregatorInit /\ ClientIdle /\ ChunkerIdle /\ ChatIdle /\ FilesIdle /\ MainIdle
    /\ HomeIdle
AggregatorSpecNext == AggregatorStep \/ AggregatorReturn
SpecAggregator == AggregatorSpecInit /\ [][AggregatorSpecNext]_vars

ChatSpecInit ==
    ChatInit /\ ClientIdle /\ ChunkerIdle /\ AggregatorIdle /\ FilesIdle /\ MainIdle
    /\ HomeIdle
ChatSpecNext == GetChatgptResponseBuild \/ GetChatgptResponseCreate
SpecChat == ChatSpecInit /\ [][ChatSpecNext]_vars

FilesSpecInit ==
    FilesInit /\ ClientIdle /\ ChunkerIdle /\ AggregatorIdle /\ ChatIdle /\ MainIdle
    /\ HomeIdle
FilesSpecNext == Startup \/ ProcessFile \/ LoopEnd
SpecFiles == FilesSpecInit /\ [][FilesSpecNext]_vars

MainSpecInit ==
    MainInit /\ ClientIdle /\ ChunkerIdle /\ AggregatorIdle /\ ChatIdle /\ FilesIdle
    /\ HomeIdle
MainSpecNext == Main
SpecMain == MainSpecInit /\ [][MainSpecNext]_vars

HomeSpecInit ==
    HomeInit /\ ClientIdle /\ ChunkerIdle /\ AggregatorIdle /\ ChatIdle /\ FilesIdle
    /\ MainIdle
HomeSpecNext == HomeRun
SpecHome == HomeSpecInit /\ [][HomeSpecNext]_vars

-----------------------------------------------------------------------------
(* Claims about the Inference Client, checked under Spec *)

\* The call has ended, by a return or by an exception.
Finished == pc \in {"returned", "raised"}
NoCredential == pc # "idle" /\ request.headers = Headers("None")
AlwaysAnswers(s) == \A n \in 1..Len(endpoint) : endpoint[n].net = "ok" /\ endpoint[n].status = s
IsFailure(kind) == ret.kind = kind

\* The text the specification extracts from a 200 body (section 4.3), or
\* "UnrecognizedSchema".
RECURSIVE Joined(_)
Joined(items) ==
    IF items = <<>> THEN <<>> ELSE <<Head(items).val>> \o Joined(Tail(items))
Extracted(body) ==
    LET keys == { body.items[i].key : i \in 1..Len(body.items) } IN
    CASE body.tag = "list" /\ keys \subseteq {"generated_text", "summary_text"} ->
            [kind |-> "Success", text |-> Joined(body.items)]
      [] body.tag = "list" /\ keys = {"-"} ->
            [kind |-> "Success", text |-> Joined(body.items)]
      [] body.tag = "object" /\ "generated_text" \in keys ->
            [kind |-> "Success", text |-> Joined(body.items)]
      [] body.tag = "string" ->
            [kind |-> "Success", text |-> Joined(body.items)]
      [] OTHER -> [kind |-> "UnrecognizedSchema", text |-> <<>>]

\* C1: with no credential configured, the call issues no POST at any point
\* and ends by returning the failure kind MissingCredential.
C1_MissingCredentialNoPost ==
    NoCredential =>
        /\ posts = <<>>
        /\ Finished => IsFailure("MissingCredential")

\* C2: when the endpoint answers 401 or 403, the call returns
\* AuthenticationFailed after exactly one request and without any sleep.
C2_AuthFailedNoRetry ==
    (Finished /\ endpoint[1].net = "ok" /\ endpoint[1].status \in {401, 403}) =>
        /\ IsFailure("AuthenticationFailed")
        /\ Len(posts) = 1
        /\ sleeps = <<>>

\* C3: against an endpoint that always answers 429 the call retries: it
\* sleeps between requests, the first sleep is 3 seconds and each later one
\* is twice the one before, and it ends by returning RetriesExhausted.
C3_RateLimitBackoff ==
    (Finished /\ AlwaysAnswers(429)) =>
        /\ IsFailure("RetriesExhausted")
        /\ Len(posts) >= 2
        /\ Len(sleeps) >= 1
        /\ sleeps[1] = 3
        /\ \A i \in 1..(Len(sleeps) - 1) : sleeps[i + 1] = 2 * sleeps[i]

\* C4: against an endpoint answering 503 with estimated_time 5 and then 200
\* with a valid payload, the call returns success after exactly two requests
\* and exactly one sleep, of at least 4 seconds and at most the clamp maximum
\* (30 seconds in the most generous revision).
C4_ColdStartOneRetry ==
    (/\ Finished
     /\ endpoint[1] = Response(503, LoadingBody)
     /\ endpoint[2].net = "ok" /\ endpoint[2].status = 200
     /\ Extracted(endpoint[2].body).kind = "Success") =>
        /\ ret = Extracted(endpoint[2].body)
        /\ Len(posts) = 2
        /\ Len(sleeps) = 1
        /\ sleeps[1] >= 4 /\ sleeps[1] <= 30

\* C10: on HTTP 200 the call returns the text extracted from an accepted
\* response shape, and UnrecognizedSchema for every other shape.
C10_ExtractsGeneratedText ==
    (Finished /\ endpoint[1].net = "ok" /\ endpoint[1].status = 200) =>
        ret = Extracted(endpoint[1].body)

-----------------------------------------------------------------------------
(* Claims about the Text Chunker, checked under SpecChunker *)

\* c is s without its surrounding whitespace: c neither starts nor ends with
\* whitespace, and s is c between two runs of whitespace.
IsStripOf(c, s) ==
    /\ c = <<>> \/ (c[1] \notin Whitespace /\ c[Len(c)] \notin Whitespace)
    /\ \E lead \in 0..Len(s) :
          /\ lead + Len(c) <= Len(s)
          /\ SubSeq(s, lead + 1, lead + Len(c)) = c
          /\ \A k \in 1..Len(s) :
                (k <= lead \/ k > lead + Len(c)) => s[k] \in Whitespace

\* The slice of the input the i-th chunk was cut from, and the chunks with
\* the whitespace trimmed from each put back, concatenated in order.
SliceOf(i) == SubSeq(ctext, spans[i][1], spans[i][2])
TrimmedLead(i) == SubSeq(SliceOf(i), 1, LeadWs(SliceOf(i)))
TrimmedTrail(i) ==
    IF LeadWs(SliceOf(i)) = Len(SliceOf(i)) THEN <<>>
    ELSE SubSeq(SliceOf(i), Len(SliceOf(i)) - TrailWs(SliceOf(i)) + 1, Len(SliceOf(i)))
RECURSIVE Restored(_)
Restored(n) ==
    IF n = 0 THEN <<>>
    ELSE Restored(n - 1) \o TrimmedLead(n) \o chunks[n] \o TrimmedTrail(n)

\* C6: when the sequence has ended, the chunks in order, each with the
\* whitespace trimmed from it put back, concatenate to the input exactly:
\* the slices follow one another from the first character to the last with
\* no gap and no overlap, and each chunk is its slice trimmed.
C6_ConcatenationReproducesInput ==
    cpc = "done" =>
        /\ Restored(Len(chunks)) = ctext
        /\ \A i \in 1..Len(chunks) :
              /\ IsStripOf(chunks[i], SliceOf(i))
              /\ spans[i][1] = (IF i = 1 THEN 1 ELSE spans[i - 1][2] + 1)
        /\ spans[Len(spans)][2] = Len(ctext)

\* a finished run with several chunks, one of them trimmed
C6_Witness ==
    /\ cpc = "done"
    /\ Len(chunks) >= 2
    /\ \E i \in 1..Len(chunks) : chunks[i] # SliceOf(i) /\ chunks[i] # <<>>

\* C7: no chunk is longer than the maximum chunk size.
C7_ChunkWithinMax ==
    \A i \in 1..Len(chunks) : Len(chunks[i]) <= cmax

\* an input longer than the maximum, cut into chunks one of which is full
C7_Witness ==
    /\ cpc = "done"
    /\ Len(ctext) > cmax
    /\ \E i \in 1..Len(chunks) : Len(chunks[i]) = cmax

\* C8: the sequence never ends with zero chunks, and for the empty string
\* it is exactly one chunk, the empty string.
C8_NeverZeroChunks ==
    cpc = "done" =>
        /\ Len(chunks) >= 1
        /\ ctext = <<>> => chunks = << <<>> >>

\* the empty input, chunked
C8_Witness == cpc = "done" /\ ctext = <<>> /\ Len(chunks) = 1

\* C9: an input shorter than the maximum chunk size gives exactly one chunk,
\* the input with its surrounding whitespace stripped.
C9_ShortInputOneChunk ==
    (cpc = "done" /\ Len(ctext) < cmax) =>
        /\ Len(chunks) = 1
        /\ IsStripOf(chunks[1], ctext)

\* a short input with surrounding whitespace, chunked
C9_Witness ==
    /\ cpc = "done" /\ Len(ctext) < cmax
    /\ Len(chunks) = 1 /\ chunks[1] # ctext /\ chunks[1] # <<>>

\* Separator sep stands at position p of the input, wholly inside lo..hi.
Occurs(sep, p, lo, hi) ==
    /\ p >= lo
    /\ p + Len(sep) - 1 <= hi
    /\ SubSeq(ctext, p, p + Len(sep) - 1) = sep

\* The hard boundary of the chunk cut from position first, and the first
\* position of the tail of its window that is searched for a separator.
HardBoundary(first) == Min(first + cmax - 1, Len(ctext))
WindowTail(first) == Max(first, HardBoundary(first) - Lookback + 1)

\* C24: when the hard boundary of a chunk falls before the end of the input,
\* the chunk ends at the end of a preferred separator found in the tail of
\* the window: of the separators found there the one first in the priority
\* order double newline, single newline, ". ", "; ", "? ", "! ", at its
\* occurrence nearest the boundary; only when the tail holds none of them
\* does the chunk end at the hard boundary.
C24_SeparatorPriority ==
    \A k \in 1..Len(spans) :
        LET first == spans[k][1]
            last == spans[k][2]
            hard == HardBoundary(first)
            lo == WindowTail(first)
            held == \E i \in 1..Len(Separators), p \in lo..hard :
                        Occurs(Separators[i], p, lo, hard)
        IN  IF hard = Len(ctext) \/ ~held
            THEN last = hard
            ELSE \E i \in 1..Len(Separators), p \in lo..hard :
                    /\ Occurs(Separators[i], p, lo, hard)
                    /\ last = p + Len(Separators[i]) - 1
                    /\ \A q \in (p + 1)..hard : ~Occurs(Separators[i], q, lo, hard)
                    /\ \A j \in 1..(i - 1), q \in lo..hard :
                          ~Occurs(Separators[j], q, lo, hard)

\* a window longer than its tail, whose tail holds "? " nearer the boundary
\* than a single newline: the chunk was cut after the newline
C24_Witness ==
    /\ Len(spans) >= 1
    /\ HardBoundary(1) < Len(ctext)
    /\ WindowTail(1) > 1
    /\ \E p \in WindowTail(1)..HardBoundary(1) :
          /\ Occurs(<<"\n">>, p, WindowTail(1), HardBoundary(1))
          /\ Occurs(<<"?", " ">>, p + 1, WindowTail(1), HardBoundary(1))
          /\ spans[1][2] = p

-----------------------------------------------------------------------------
(* Claims about the Aggregator, checked under SpecAggregator *)

\* The chunks whose result is a hard failure, and the first of them.
HardChunks == { i \in 1..Len(achunks) : aoutcome[i] \in HardKinds }
FirstHard == CHOOSE i \in HardChunks : \A j \in HardChunks : i <= j

\* C5: when some chunk fails with a hard failure kind, no inference request
\* is ever issued for a chunk after the first such chunk, and the Aggregator
\* returns that chunk's failure, with no output of any later chunk in it.
C5_HardFailureShortCircuits ==
    HardChunks # {} =>
        /\ \A k \in 1..Len(acalls) : acalls[k] <= achunks[FirstHard]
        /\ \A k \in 1..Len(aparts) : aparts[k].marker < achunks[FirstHard]
        /\ apc = "done" =>
              /\ aresult = Failure(aoutcome[FirstHard])
              /\ acalls = SubSeq(achunks, 1, FirstHard)
              /\ \A k \in 1..Len(aresult.parts) :
                    aresult.parts[k].marker <= achunks[FirstHard]

\* three chunks, the second a ModelNotFound after a success, aggregated
C5_Witness ==
    /\ apc = "done"
    /\ Len(achunks) = 3
    /\ aoutcome[1] = "Success" /\ aoutcome[2] = "ModelNotFound"
    /\ aoutcome[3] = "Success"
    /\ acalls = <<1, 2>>

\* The chunks the client has answered with generated text so far, in input
\* order.
RECURSIVE SucceededIn(_)
SucceededIn(calls) ==
    IF calls = <<>> THEN <<>>
    ELSE LET rest == SucceededIn(SubSeq(calls, 1, Len(calls) - 1))
             last == calls[Len(calls)]
         IN  IF aoutcome[last] = "Success" THEN Append(rest, last) ELSE rest

\* C16: the Aggregator invokes the Inference Client once per chunk in input
\* order (the calls made are always a prefix of the chunk sequence, and all of
\* it when no chunk fails hard), and the outputs it has concatenated are those
\* of the successful chunks in that same order, each under its own
\* chunk-index marker: the output of chunk i never comes after that of chunk
\* j when i < j.
C16_OrderPreserved ==
    /\ Len(acalls) <= Len(achunks)
    /\ acalls = SubSeq(achunks, 1, Len(acalls))
    /\ Len(aparts) = Len(SucceededIn(acalls))
    /\ \A k \in 1..Len(aparts) :
          /\ aparts[k].marker = SucceededIn(acalls)[k]
          /\ aparts[k].text = OutputOf(aparts[k].marker)
    /\ \A k, l \in 1..Len(aparts) :
          k < l => aparts[k].marker < aparts[l].marker
    /\ (apc = "done" /\ HardChunks = {}) =>
          /\ acalls = achunks
          /\ aresult = Success(aparts)

\* three chunks, the second a soft failure between two successes, aggregated
C16_Witness ==
    /\ apc = "done"
    /\ Len(achunks) = 3
    /\ aoutcome[1] = "Success" /\ aoutcome[2] = "NetworkError"
    /\ aoutcome[3] = "Success"
    /\ acalls = <<1, 2, 3>>
    /\ aresult.ok
    /\ aresult.parts = <<Labeled(1), Labeled(3)>>

-----------------------------------------------------------------------------
(* Further claims about the Inference Client, checked under Spec (C14 under
   SpecFair) *)

\* C11: when the endpoint answers 404, the call returns ModelNotFound after
\* exactly one request.
C11_ModelNotFoundNoRetry ==
    (Finished /\ endpoint[1].net = "ok" /\ endpoint[1].status = 404) =>
        /\ IsFailure("ModelNotFound")
        /\ Len(posts) = 1

\* C12: when the endpoint answers a status other than 200, 401, 403, 404,
\* 429 and 503, the call returns UpstreamError carrying that status, after
\* one request.
C12_UpstreamError ==
    (Finished /\ endpoint[1].net = "ok"
       /\ endpoint[1].status \notin {200, 401, 403, 404, 429, 503}) =>
        /\ IsFailure("UpstreamError")
        /\ ret.response.status = endpoint[1].status
        /\ Len(posts) = 1

\* C13: a network-level error never leaves the call as an exception, and
\* when every attempt meets one the call returns NetworkError.
C13_NetworkErrorContained ==
    /\ pc # "raised"
    /\ (Finished /\ \A n \in 1..Len(endpoint) : endpoint[n].net = "error") =>
          IsFailure("NetworkError")

\* C14: every call terminates: it never issues more requests than its
\* attempt ceiling, it does end, and it ends either returning the
\* endpoint's response or with its attempts used up on a network error.
C14_CallTerminates ==
    /\ [](Len(posts) <= AttemptCeiling)
    /\ <>Finished
    /\ [](Finished =>
            \/ pc = "returned" /\ ret = Returned(endpoint[1])
            \/ pc = "raised" /\ Len(posts) = AttemptCeiling
                             /\ endpoint[1].net = "error")

\* a call that ended on a rate-limited answer, after its one request
C14_Witness ==
    Finished /\ Len(posts) = 1 /\ endpoint[1].net = "ok" /\ endpoint[1].status = 429

-----------------------------------------------------------------------------
(* Claims about the result of a model call, checked under SpecChat *)

\* The failure kinds of the specification (section 7).
FailureKinds == HardKinds \cup SoftKinds

\* C15: every result is either a success (generated text) or a failure of
\* one of the enumerated kinds: a call whose completion failed returns a
\* failure, never a value of the type generated text has.
C15_SuccessXorFailure ==
    gpc = "returned" =>
        IF gcompletion.kind = "reply"
        THEN gret.type = "str"
        ELSE gret.type \in FailureKinds

-----------------------------------------------------------------------------
(* Claims about start-up and the multi-file loop, checked under SpecFiles *)

\* The run ended at start-up, before anything was displayed.
CrashedAtStartup == spc = "crashed" /\ shown = <<>>
WasShown(kind, i) == \E k \in 1..Len(shown) : shown[k] = Shown(kind, i)
PlainTextFile(file) == file.ext # "pdf" /\ file.ext # "docx"

\* C17: with no translation credential configured, start-up raises nothing
\* and every translation returns its text unchanged, with no error.
C17_NoCredentialPassthrough ==
    tkey = "None" =>
        /\ ~CrashedAtStartup
        /\ \A k \in 1..Len(flog) :
              flog[k].translate # "-" =>
                 /\ flog[k].translate = "ok"
                 /\ flog[k].text_en = flog[k].text
                 /\ ~WasShown("error_translation", flog[k].file)

\* C18: no failure of an external call ends the run as an unhandled
\* exception.
C18_NoUnhandledFailure == spc # "crashed"

\* C19 as stated: after a failed language detection the detected language
\* is English.
C19_DetectFailureIsEnglish ==
    \A k \in 1..Len(flog) : flog[k].detect = "raise" => flog[k].lang = "en"

\* C19, amended: after a failed language detection the detected language is
\* "unknown", a warning is displayed, the failure is not propagated (the
\* loop finishes with the file and goes on) and no translation is attempted.
C19_DetectFailureIsUnknown ==
    \A k \in 1..Len(flog) :
        flog[k].detect = "raise" =>
           /\ flog[k].lang = "unknown"
           /\ flog[k].translate = "-"
           /\ ~flog[k].skipped
           /\ WasShown("warning_detect", flog[k].file)
           /\ ~WasShown("write_translating", flog[k].file)
           /\ fi > flog[k].file

\* a run that finished, with a file after the one whose detection failed
C19_Witness ==
    /\ spc = "done"
    /\ \E k \in 1..Len(flog) : flog[k].detect = "raise" /\ k < Len(flog)

\* an invalid byte replaced by the replacement character
Replaced(data) ==
    [i \in 1..Len(data) |-> IF data[i] = InvalidByte THEN "uFFFD" ELSE data[i]]
IsValidByte(b) == b # InvalidByte

\* C20 as stated: a file that is neither PDF nor DOCX is read as plain text
\* with every invalid byte replaced, and its extraction never fails.
C20_InvalidBytesReplaced ==
    /\ \A k \in 1..Len(flog) :
          PlainTextFile(files[flog[k].file]) =>
             flog[k].text = Replaced(files[flog[k].file].data)
    /\ (spc = "crashed" /\ ~CrashedAtStartup) => ~PlainTextFile(files[fi])

\* C20, amended: a file whose name ends in neither .pdf nor .docx is read as
\* plain text with every invalid byte left out (the valid characters kept,
\* in order), and its extraction never fails.
C20_InvalidBytesDropped ==
    /\ \A k \in 1..Len(flog) :
          PlainTextFile(files[flog[k].file]) =>
             flog[k].text = SelectSeq(files[flog[k].file].data, IsValidByte)
    /\ (spc = "crashed" /\ ~CrashedAtStartup) => ~PlainTextFile(files[fi])

\* a .doc file holding an invalid byte, extracted
C20_Witness ==
    \E k \in 1..Len(flog) :
        /\ PlainTextFile(files[flog[k].file])
        /\ \E i \in 1..Len(files[flog[k].file].data) :
              files[flog[k].file].data[i] = InvalidByte
        /\ flog[k].text = <<"a">>

\* Translation was attempted for the file of a log entry.
Attempted(entry) == entry.translate # "-"
IsBlank(text) == Strip(text) = <<>>

\* C30: translation to English is attempted for a file exactly when its
\* extracted text is non-blank and its detected language is "ar"; a file with
\* blank text or a failed translation is skipped with an error message, and
\* every later file is still processed: the run ends with every file gone
\* through.
C30_TranslationIffArabic ==
    /\ \A k \in 1..Len(flog) :
          /\ Attempted(flog[k]) <=> (~IsBlank(flog[k].text) /\ flog[k].lang = "ar")
          /\ IsBlank(flog[k].text) =>
                flog[k].skipped /\ WasShown("error_empty", flog[k].file)
          /\ flog[k].translate = "raise" =>
                flog[k].skipped /\ WasShown("error_translation", flog[k].file)
    /\ \A k \in 1..Len(flog) :
          (flog[k].skipped /\ spc \in {"done", "crashed"}) =>
              Len(flog) = Len(files)

-----------------------------------------------------------------------------
(* Claims about the prompt and the request of the Inference Client, checked
   under Spec *)

\* The pieces of the instruction template that do not depend on any argument.
TemplatePieces ==
    {"Based on the following text", "laws of", "1", "2", "3", "4", "5",
     "Text from legal document:"}
InstructionPoints == <<"1", "2", "3", "4", "5">>

\* The positions of a prompt that hold an instruction point, in order.
RECURSIVE PointsOf(_)
PointsOf(p) ==
    IF p = <<>> THEN <<>>
    ELSE IF Head(p) \in {"1", "2", "3", "4", "5"}
         THEN <<Head(p)>> \o PointsOf(Tail(p))
         ELSE PointsOf(Tail(p))

\* The prompt has the laws-of clause.
NamesJurisdiction(p) == \E i \in 1..Len(p) : p[i] = "laws of"

\* C21: the rendered prompt is a function of the chunk and the jurisdiction
\* only (it is the template applied to that pair, and but for the two
\* arguments it holds fixed pieces), it ends with the chunk unchanged, it
\* carries the five numbered instruction points, and it names the
\* jurisdiction exactly when the jurisdiction is non-empty.
C21_PromptDeterministic ==
    pc # "idle" =>
        LET p == request.json.inputs IN
        /\ p = Prompt(args.text, args.country)
        /\ p[Len(p)] = args.text
        /\ \A i \in 1..(Len(p) - 1) :
              \/ p[i] \in TemplatePieces
              \/ i > 1 /\ p[i - 1] = "laws of" /\ p[i] = args.country
        /\ PointsOf(SubSeq(p, 1, Len(p) - 1)) = InstructionPoints
        /\ NamesJurisdiction(p) <=> args.country # ""
        /\ NamesJurisdiction(p) =>
              \E i \in 1..(Len(p) - 1) : p[i] = "laws of" /\ p[i + 1] = args.country

\* a call with a jurisdiction has rendered its prompt and returned
C21_Witness ==
    /\ pc = "returned"
    /\ args.text = "contract"
    /\ args.country = "Qatar"
    /\ NamesJurisdiction(request.json.inputs)
    /\ Len(request.json.inputs) = 10

\* C22: every inference request is a POST to the models/<model-id> path of
\* the inference host, with the credential as a bearer Authorization header
\* and a JSON body whose only fields are inputs (the rendered prompt) and
\* parameters.max_new_tokens (an integer).
C22_RequestShape ==
    \A k \in 1..Len(posts) :
        /\ posts[k].method = "POST"
        /\ posts[k].url = <<"https://api-inference.huggingface.co", "models", args.model_id>>
        /\ posts[k].headers = <<"Bearer", args.token>>
        /\ DOMAIN posts[k].json = {"inputs", "parameters"}
        /\ posts[k].json.inputs = Prompt(args.text, args.country)
        /\ DOMAIN posts[k].json.parameters = {"max_new_tokens"}
        /\ posts[k].json.parameters.max_new_tokens \in Int

\* a request has been posted with a token
C22_Witness ==
    /\ Len(posts) = 1
    /\ args.token = "hf_token"
    /\ posts[1].headers = <<"Bearer", "hf_token">>
    /\ posts[1].json.parameters.max_new_tokens = 1024

-----------------------------------------------------------------------------
(* Claims about main of app.py, checked under SpecMain *)

\* The documents a transcript holds content of.
DerivedFrom(msgs) ==
    { msgs[k].content.of : k \in 1..Len(msgs) } \ {"-"}

\* C23: a Document is discarded when a new document is uploaded: after a run
\* that has processed an upload, no session state (the transcript is the
\* only state kept between runs) holds content derived from another, earlier
\* document.
C23_PreviousDocumentDiscarded ==
    run.outcome = "complete" => DerivedFrom(messages) \subseteq {run.file}

\* The roles of a transcript alternate, assistant first and last.
Alternates(msgs) ==
    /\ \A k \in 1..Len(msgs) :
          msgs[k].role = IF k % 2 = 1 THEN "assistant" ELSE "user"
    /\ msgs # <<>> => msgs[Len(msgs)].role = "assistant"

\* C25: after every complete run of main the transcript is empty or starts
\* with an assistant message and strictly alternates assistant, user,
\* assistant, ...: no two consecutive entries have the same role and the
\* last entry is an assistant message.
C25_TranscriptAlternates ==
    /\ Alternates(messages)
    /\ \A k \in 1..(Len(messages) - 1) : messages[k].role # messages[k + 1].role

\* a question has been asked and answered after the initial analysis
C25_Witness ==
    /\ run.event = "ask" /\ run.outcome = "complete"
    /\ Len(messages) = 5
    /\ messages[4].role = "user" /\ messages[5].role = "assistant"

\* C26: the initial analysis is requested at most once per session: only in
\* a run with a file uploaded and an empty transcript; once the transcript is
\* non-empty (its first entry may be the error string, a different document
\* may be uploaded) no run requests it again; a run with no file uploaded
\* leaves the transcript unchanged.
C26_InitialAnalysisOnce ==
    /\ initials <= 1
    /\ initials = 1 <=> messages # <<>>
    /\ run.initial => /\ run.file # "None"
                      /\ run.start = <<>>
                      /\ initials = 1
    /\ run.start # <<>> => ~run.initial
    /\ run.file = "None" => messages = run.start

\* another document is uploaded after a first one whose analysis failed
C26_Witness ==
    /\ run.event = "upload" /\ run.outcome = "complete"
    /\ run.file = "B"
    /\ run.start # <<>>
    /\ messages[1].content.says = "error"
    /\ ~run.initial

-----------------------------------------------------------------------------
(* Claims about the Home page of streamlit_demo.py, checked under SpecHome *)

\* C28: after any sequence of Save Q&A and Clear History clicks, every pair
\* in qa_pairs has a non-empty question and a non-empty answer; Save with
\* either field empty leaves qa_pairs unchanged, Save with both set appends
\* exactly one pair at the end, and Clear History leaves qa_pairs empty.
C28_QaPairsComplete ==
    /\ \A k \in 1..Len(qa_pairs) :
          qa_pairs[k].question # "" /\ qa_pairs[k].answer # ""
    /\ hrun.event.kind = "save" =>
          IF hrun.event.question = "" \/ hrun.event.answer = ""
          THEN qa_pairs = hrun.before
          ELSE qa_pairs = hrun.before \o
                  << [question |-> hrun.event.question, answer |-> hrun.event.answer] >>
    /\ hrun.event.kind = "clear" => qa_pairs = <<>>
    /\ hrun.event.kind \notin {"save", "clear"} => qa_pairs = hrun.before

\* Save was clicked with an empty answer after a pair had been saved
C28_Witness ==
    /\ hrun.event.kind = "save"
    /\ hrun.event.question = "q" /\ hrun.event.answer = ""
    /\ Len(hrun.before) = 1
    /\ qa_pairs = hrun.before

\* The uploaded files whose extraction did not raise, by position, in upload
\* order.
ProcessedFiles ==
    SelectSeq([i \in 1..Len(home_uploaded_files) |-> i],
              LAMBDA i : ~home_uploaded_files[i].raises)

\* C29: a file whose extraction raises contributes no entry to all_texts and
\* does not stop later files: all_texts holds exactly one entry per file
\* processed without error, in upload order, every file is gone through
\* (each gets its success or its error message), and the combined text
\* lists the entries in that order.
C29_FailedFileSkipped ==
    /\ Len(all_texts) = Len(ProcessedFiles)
    /\ \A k \in 1..Len(all_texts) : all_texts[k].filename = ProcessedFiles[k]
    /\ Len(hshown) = Len(home_uploaded_files)
    /\ \A i \in 1..Len(hshown) :
          /\ hshown[i].file = i
          /\ hshown[i].kind = "error" <=> home_uploaded_files[i].raises
    /\ Len(combined_text) = 4 * Len(all_texts)
    /\ \A k \in 1..Len(all_texts) :
          /\ combined_text[4 * k - 2] = all_texts[k].filename
          /\ combined_text[4 * k] = all_texts[k].text

\* two files, the first of which raised: only the second has an entry
C29_Witness ==
    /\ Len(home_uploaded_files) = 2
    /\ home_uploaded_files[1].raises /\ ~home_uploaded_files[2].raises
    /\ Len(all_texts) = 1
    /\ all_texts[1].filename = 2
    /\ hshown[1].kind = "error" /\ hshown[2].kind = "success"

=============================================================================
